---- MODULE Spec2Model ----
(***************************************************************************)
(* Task API (Express + better-sqlite3 + JWT): the credential store, the    *)
(* signup/login controllers, the bearer-token middleware and the           *)
(* ownership-scoped task controllers, as one state machine.                *)
(*                                                                         *)
(* A JavaScript value is a record [t, v]: t is its type tag and v, for a   *)
(* string, the sequence of its symbols (" " is a whitespace character, any *)
(* other symbol a run of non-whitespace characters).  Request bodies hold  *)
(* strings, null and undefined (an absent key).                            *)
(***************************************************************************)
EXTENDS Integers, Sequences, FiniteSets, TLC

VARIABLES
    users,      \* rows of table users
    tasks,      \* rows of table tasks
    nextTaskId, \* the next fresh task id (uuidv4 never repeats an id)
    tokens,     \* the tokens generateToken has issued so far
    clock,      \* wall clock, in whole seconds
    conn,       \* per connection: the async auth handler running on it
    last        \* the most recent task-route request and its response

vars == <<users, tasks, nextTaskId, tokens, clock, conn, last>>

-----------------------------------------------------------------------------
(* Bounds of the model *)

MaxConn == 2
MaxTasks == 2
MaxFieldTasks == 1
MaxClock == 2

-----------------------------------------------------------------------------
(* JavaScript values *)

Undefined == [t |-> "undefined", v |-> <<>>]
Null == [t |-> "null", v |-> <<>>]
Str(s) == [t |-> "string", v |-> s]

\* !x : undefined, null and the empty string are falsy
Falsy(x) == x.t # "string" \/ x.v = <<>>

\* a || b
OrElse(a, b) == IF Falsy(a) THEN b ELSE a

RECURSIVE TrimStart(_)
TrimStart(s) ==
    IF s # <<>> /\ Head(s) = " " THEN TrimStart(Tail(s)) ELSE s

RECURSIVE TrimEnd(_)
TrimEnd(s) ==
    IF s # <<>> /\ s[Len(s)] = " " THEN TrimEnd(SubSeq(s, 1, Len(s) - 1)) ELSE s

\* String.prototype.trim
Trim(s) == TrimEnd(TrimStart(s))

-----------------------------------------------------------------------------
(* Responses *)

Json(status, body) == [status |-> status, body |-> body]

Failure(status, kind, message) ==
    Json(status, [error |-> kind, message |-> message])

GenericMessage == "An unexpected error occurred. Please try again later."

\* An Error object as thrown by the runtime or the database driver: it has
\* a name and a message and no status property (status 0 stands for unset).
Thrown(name, message) == [name |-> name, message |-> message, status |-> 0]

errorHandler(err) ==
    LET status == IF err.status # 0 THEN err.status ELSE 500
    IN  Json(status,
             [error |-> IF err.name # "" THEN err.name ELSE "InternalServerError",
              message |-> IF status = 500 THEN GenericMessage ELSE err.message])

NoResponse == Json(0, [error |-> "", message |-> ""])

-----------------------------------------------------------------------------
(* Credential store and tokens *)

MinPasswordLength == 8

\* process.env.JWT_EXPIRES_IN, in seconds ('7d' when unset): a deployment
\* with short-lived tokens, so that tokens expire within MaxClock
JWT_EXPIRES_IN == 2

\* bcrypt.hash / bcrypt.compare: one-way, and compare succeeds exactly on the
\* password the hash was made from
Hash(password) == [bcrypt |-> password.v]
Compare(password, hash) == hash = Hash(password)

\* uuidv4() for a new user: a fresh id (users are never deleted)
NewUserId == Cardinality(users) + 1

FindUserByEmail(email) == {u \in users : u.email = email}

\* the insert into a table without the UNIQUE constraint
InsertUserNoUnique(row) ==
    [ok |-> TRUE, users |-> users \cup {row}, err |-> Thrown("", "")]

\* INSERT INTO users: email is UNIQUE
InsertUser(row) ==
    IF \E u \in users : u.email = row.email
    THEN [ok |-> FALSE, users |-> users,
          err |-> Thrown("SqliteError", "UNIQUE constraint failed: users.email")]
    ELSE [ok |-> TRUE, users |-> users \cup {row},
          err |-> Thrown("", "")]

generateToken(payload) ==
    [kind |-> "jwt", id |-> payload.id, email |-> payload.email,
     exp |-> clock + JWT_EXPIRES_IN, sig |-> "secret"]

-----------------------------------------------------------------------------
(* Auth controller: signup and login.  Each is an async function with one  *)
(* await (bcrypt) between the lookup and what follows, so other requests   *)
(* run in between.                                                         *)

Conns == 1 .. MaxConn

Idle == [phase |-> "idle", op |-> "", body |-> <<>>, user |-> <<>>,
         via |-> "", resp |-> NoResponse]

Free(c) == conn[c].phase \in {"idle", "done"}

Done(c, op, body, via, resp) ==
    conn' = [conn EXCEPT ![c] = [phase |-> "done", op |-> op, body |-> body,
                                 user |-> <<>>, via |-> via, resp |-> resp]]

Await(c, phase, op, body, user) ==
    conn' = [conn EXCEPT ![c] = [phase |-> phase, op |-> op, body |-> body,
                                 user |-> user, via |-> "", resp |-> NoResponse]]

\* signup up to `await bcrypt.hash`
SignupBegin(c, body) ==
    /\ Free(c)
    /\ UNCHANGED <<users, tasks, nextTaskId, tokens, clock, last>>
    /\ IF Falsy(body.name) \/ Falsy(body.email) \/ Falsy(body.password)
       THEN Done(c, "signup", body, "validate",
                 Failure(400, "ValidationError",
                         "name, email, and password are all required."))
       ELSE IF Len(body.password.v) < MinPasswordLength
       THEN Done(c, "signup", body, "validate",
                 Failure(400, "ValidationError",
                         "Password must be at least 8 characters long."))
       ELSE IF FindUserByEmail(body.email) # {}
       THEN Done(c, "signup", body, "lookup",
                 Failure(409, "Conflict",
                         "An account with this email already exists."))
       ELSE Await(c, "hashing", "signup", body, <<>>)

\* signup after the hash resolved: insert, token, 201; a throw goes to next(err)
SignupFinish(c) ==
    /\ conn[c].phase = "hashing"
    /\ UNCHANGED <<tasks, nextTaskId, clock, last>>
    /\ LET body == conn[c].body
           userId == NewUserId
           ins == InsertUser([id |-> userId, email |-> body.email,
                              password |-> Hash(body.password),
                              name |-> body.name])
           token == generateToken([id |-> userId, email |-> body.email])
       IN  IF ins.ok
           THEN /\ users' = ins.users
                /\ tokens' = tokens \cup {token}
                /\ Done(c, "signup", body, "insert",
                        Json(201, [message |-> "Account created successfully.",
                                   token |-> token,
                                   user |-> [id |-> userId, name |-> body.name,
                                             email |-> body.email]]))
           ELSE /\ UNCHANGED <<users, tokens>>
                /\ Done(c, "signup", body, "insert", errorHandler(ins.err))

\* the 401 sent when no user has the email
LoginNoUserResponse ==
    Failure(401, "InvalidCredentials", "Invalid email or password.")

\* a 401 that tells which factor was wrong
LoginMismatchLeaky ==
    Failure(401, "InvalidCredentials", "Wrong password.")

\* the 401 sent when bcrypt.compare answers false
LoginMismatchResponse ==
    Failure(401, "InvalidCredentials", "Invalid email or password.")

\* login up to `await bcrypt.compare`
LoginBegin(c, body) ==
    /\ Free(c)
    /\ UNCHANGED <<users, tasks, nextTaskId, tokens, clock, last>>
    /\ IF Falsy(body.email) \/ Falsy(body.password)
       THEN Done(c, "login", body, "validate",
                 Failure(400, "ValidationError",
                         "email and password are required."))
       ELSE IF FindUserByEmail(body.email) = {}
       THEN Done(c, "login", body, "lookup", LoginNoUserResponse)
       ELSE \E u \in FindUserByEmail(body.email) :
                Await(c, "comparing", "login", body, u)

\* login after the comparison resolved
LoginFinish(c) ==
    /\ conn[c].phase = "comparing"
    /\ UNCHANGED <<users, tasks, nextTaskId, clock, last>>
    /\ LET body == conn[c].body
           user == conn[c].user
           token == generateToken([id |-> user.id, email |-> user.email])
       IN  IF ~Compare(body.password, user.password)
           THEN /\ UNCHANGED tokens
                /\ Done(c, "login", body, "compare", LoginMismatchResponse)
           ELSE /\ tokens' = tokens \cup {token}
                /\ Done(c, "login", body, "compare",
                        Json(200, [message |-> "Login successful.",
                                   token |-> token,
                                   user |-> [id |-> user.id, name |-> user.name,
                                             email |-> user.email]]))

-----------------------------------------------------------------------------
(* Token verifier: the authenticate middleware in front of every task route *)

\* A raw Authorization header: absent, or a string.  split(' ') of the
\* string is <<scheme>> \o rest; every part after the first is held as a
\* token (a signed JWT, or text that is no JWT).
NoHeader == [absent |-> TRUE, scheme |-> "", rest |-> <<>>]
Header(scheme, rest) == [absent |-> FALSE, scheme |-> scheme, rest |-> rest]
Bearer(token) == Header("Bearer", <<token>>)

Garbage == [kind |-> "garbage", id |-> 0, email |-> Str(<<>>), exp |-> 0, sig |-> ""]
EmptyToken == [kind |-> "empty", id |-> 0, email |-> Str(<<>>), exp |-> 0, sig |-> ""]
Forged(token) == [token EXCEPT !.sig = "other"]

NoUser == [id |-> 0, email |-> Str(<<>>)]

\* verification that checks the signature only
jwtVerifyIgnoringExpiry(token, now) ==
    IF token.kind # "jwt" \/ token.sig # "secret"
    THEN [ok |-> FALSE, name |-> "JsonWebTokenError", decoded |-> NoUser]
    ELSE [ok |-> TRUE, name |-> "",
          decoded |-> [id |-> token.id, email |-> token.email]]

\* jwt.verify(token, secret): the signature is checked before the expiry
jwtVerify(token, now) ==
    IF token.kind # "jwt"
    THEN [ok |-> FALSE, name |-> "JsonWebTokenError", decoded |-> NoUser]
    ELSE IF token.sig # "secret"
    THEN [ok |-> FALSE, name |-> "JsonWebTokenError", decoded |-> NoUser]
    ELSE IF now >= token.exp
    THEN [ok |-> FALSE, name |-> "TokenExpiredError", decoded |-> NoUser]
    ELSE [ok |-> TRUE, name |-> "",
          decoded |-> [id |-> token.id, email |-> token.email]]

authenticate(header) ==
    IF header.absent \/ (header.scheme = "" /\ header.rest = <<>>)
    THEN [ok |-> FALSE, user |-> NoUser,
          resp |-> Failure(401, "Unauthorized",
                     "No Authorization header provided. Include: Authorization: Bearer <token>")]
    ELSE IF 1 + Len(header.rest) # 2 \/ header.scheme # "Bearer"
    THEN [ok |-> FALSE, user |-> NoUser,
          resp |-> Failure(401, "Unauthorized",
                     "Authorization header must be in format: Bearer <token>")]
    ELSE LET v == jwtVerify(header.rest[1], clock)
         IN  IF v.ok
             THEN [ok |-> TRUE, user |-> v.decoded, resp |-> NoResponse]
             ELSE IF v.name = "TokenExpiredError"
             THEN [ok |-> FALSE, user |-> NoUser,
                   resp |-> Failure(401, "TokenExpired",
                              "Your token has expired. Please log in again.")]
             ELSE [ok |-> FALSE, user |-> NoUser,
                   resp |-> Failure(401, "InvalidToken",
                              "Token is invalid or malformed.")]

-----------------------------------------------------------------------------
(* Task controller *)

VALID_STATUSES == {Str(<<"pending">>), Str(<<"in_progress">>), Str(<<"completed">>)}
VALID_PRIORITIES == {Str(<<"low">>), Str(<<"medium">>), Str(<<"high">>)}

NoBody == [title |-> Undefined, description |-> Undefined, status |-> Undefined,
           priority |-> Undefined, due_date |-> Undefined]
NoQuery == [status |-> Undefined, priority |-> Undefined]
NoRequest == [op |-> "none", header |-> NoHeader, user |-> NoUser, id |-> 0,
              body |-> NoBody, query |-> NoQuery, resp |-> NoResponse]

NotFound == Failure(404, "NotFound", "Task not found.")
StatusInvalid ==
    Failure(400, "ValidationError",
            "status must be one of: pending, in_progress, completed")
PriorityInvalid ==
    Failure(400, "ValidationError", "priority must be one of: low, medium, high")

\* the owner left out of the WHERE clause
FindTaskAnyOwner(id, userId) == {t \in tasks : t.id = id}

\* SELECT * FROM tasks WHERE id = ? AND user_id = ?
FindTask(id, userId) == {t \in tasks : t.id = id /\ t.user_id = userId}

\* SELECT * FROM tasks WHERE id = ?
FindTaskById(id) == {t \in tasks : t.id = id}

\* SELECT * FROM tasks WHERE user_id = ? [AND status = ?] [AND priority = ?]
SelectTasks(userId, status, priority) ==
    {t \in tasks : /\ t.user_id = userId
                   /\ Falsy(status) \/ t.status = status
                   /\ Falsy(priority) \/ t.priority = priority}

\* ORDER BY created_at DESC: every order of the rows that sorts them so (rows
\* of one second come in an order the query does not fix)
Orderings(rows) ==
    {s \in [1 .. Cardinality(rows) -> rows] :
        /\ \A i, j \in DOMAIN s : i # j => s[i] # s[j]
        /\ \A i, j \in DOMAIN s : i < j => s[i].created_at >= s[j].created_at}

\* the validation of listTasks; ok means the query runs
listTasks(user, query) ==
    IF ~Falsy(query.status) /\ query.status \notin VALID_STATUSES
    THEN [ok |-> FALSE, resp |-> StatusInvalid, rows |-> {}]
    ELSE IF ~Falsy(query.priority) /\ query.priority \notin VALID_PRIORITIES
    THEN [ok |-> FALSE, resp |-> PriorityInvalid, rows |-> {}]
    ELSE [ok |-> TRUE, resp |-> NoResponse,
          rows |-> SelectTasks(user.id, query.status, query.priority)]

getTask(user, id) ==
    IF FindTask(id, user.id) = {}
    THEN NotFound
    ELSE Json(200, [task |-> CHOOSE t \in FindTask(id, user.id) : TRUE])

\* createTask: the response and the table after it
createTask(user, body) ==
    IF Falsy(body.title) \/ Trim(body.title.v) = <<>>
    THEN [resp |-> Failure(400, "ValidationError", "title is required."),
          tasks |-> tasks]
    ELSE IF ~Falsy(body.status) /\ body.status \notin VALID_STATUSES
    THEN [resp |-> StatusInvalid, tasks |-> tasks]
    ELSE IF ~Falsy(body.priority) /\ body.priority \notin VALID_PRIORITIES
    THEN [resp |-> PriorityInvalid, tasks |-> tasks]
    ELSE LET row == [id |-> nextTaskId,
                     user_id |-> user.id,
                     title |-> Str(Trim(body.title.v)),
                     description |-> OrElse(body.description, Null),
                     status |-> OrElse(body.status, Str(<<"pending">>)),
                     priority |-> OrElse(body.priority, Str(<<"medium">>)),
                     due_date |-> OrElse(body.due_date, Null),
                     created_at |-> clock,
                     updated_at |-> clock]
         IN  [resp |-> Json(201, [message |-> "Task created.", task |-> row]),
              tasks |-> tasks \cup {row}]

\* supplied !== undefined ? supplied : existing
Merge(supplied, existing) ==
    IF supplied # Undefined THEN supplied ELSE existing

\* the bound parameters in the wrong order
UpdateRowSwapped(row, title, description, status, priority, due_date) ==
    [row EXCEPT !.title = title, !.description = due_date,
                !.status = status, !.priority = priority,
                !.due_date = description, !.updated_at = clock]

\* updated_at left out of the SET list
UpdateRowKeepingStamp(row, title, description, status, priority, due_date) ==
    [row EXCEPT !.title = title, !.description = description,
                !.status = status, !.priority = priority,
                !.due_date = due_date]

\* UPDATE tasks SET title = ?, ..., updated_at = datetime('now')
UpdateRow(row, title, description, status, priority, due_date) ==
    [row EXCEPT !.title = title, !.description = description,
                !.status = status, !.priority = priority,
                !.due_date = due_date, !.updated_at = clock]

\* updateTask: the response and the table after it
updateTask(user, id, body) ==
    IF FindTask(id, user.id) = {}
    THEN [resp |-> NotFound, tasks |-> tasks]
    ELSE IF ~Falsy(body.status) /\ body.status \notin VALID_STATUSES
    THEN [resp |-> StatusInvalid, tasks |-> tasks]
    ELSE IF ~Falsy(body.priority) /\ body.priority \notin VALID_PRIORITIES
    THEN [resp |-> PriorityInvalid, tasks |-> tasks]
    ELSE IF body.title = Null
    THEN \* null.trim() throws
         [resp |-> errorHandler(Thrown("TypeError",
                     "Cannot read properties of null (reading 'trim')")),
          tasks |-> tasks]
    ELSE LET existing == CHOOSE t \in FindTask(id, user.id) : TRUE
             updatedTitle ==
                 IF body.title # Undefined THEN Str(Trim(body.title.v))
                 ELSE existing.title
             updatedDescription == Merge(body.description, existing.description)
             updatedStatus == Merge(body.status, existing.status)
             updatedPriority == Merge(body.priority, existing.priority)
             updatedDueDate == Merge(body.due_date, existing.due_date)
             row == UpdateRow(existing, updatedTitle, updatedDescription,
                              updatedStatus, updatedPriority, updatedDueDate)
         IN  IF updatedStatus = Null \/ updatedPriority = Null
             THEN \* title, status and priority are NOT NULL columns
                  [resp |-> errorHandler(Thrown("SqliteError",
                              "NOT NULL constraint failed")),
                   tasks |-> tasks]
             ELSE [resp |-> Json(200, [message |-> "Task updated.",
                                       task |-> row]),
                   tasks |-> (tasks \ {existing}) \cup {row}]

\* the id left out of the WHERE clause
deleteTaskOfOwner(user, id) ==
    IF FindTask(id, user.id) = {}
    THEN [resp |-> NotFound, tasks |-> tasks]
    ELSE [resp |-> Json(200, [message |-> "Task deleted."]),
          tasks |-> {t \in tasks : t.user_id # user.id}]

\* deleteTask: the response and the table after it
deleteTask(user, id) ==
    IF FindTask(id, user.id) = {}
    THEN [resp |-> NotFound, tasks |-> tasks]
    ELSE [resp |-> Json(200, [message |-> "Task deleted."]),
          tasks |-> tasks \ FindTask(id, user.id)]

-----------------------------------------------------------------------------
(* Task routes: authenticate, then the controller *)

Request(op, header, user, id, body, query, resp) ==
    [op |-> op, header |-> header, user |-> user, id |-> id, body |-> body,
     query |-> query, resp |-> resp]

Rejected(op, header, id, body, query, resp) ==
    /\ last' = Request(op, header, NoUser, id, body, query, resp)
    /\ UNCHANGED <<tasks, nextTaskId>>

ListTasksRoute(header, query) ==
    /\ UNCHANGED <<users, tokens, clock, conn>>
    /\ LET a == authenticate(header)
           r == listTasks(a.user, query)
       IN  IF ~a.ok
           THEN Rejected("list", header, 0, NoBody, query, a.resp)
           ELSE IF ~r.ok
           THEN /\ last' = Request("list", header, a.user, 0, NoBody, query, r.resp)
                /\ UNCHANGED <<tasks, nextTaskId>>
           ELSE \E order \in Orderings(r.rows) :
                /\ last' = Request("list", header, a.user, 0, NoBody, query,
                                   Json(200, [count |-> Len(order),
                                              tasks |-> order]))
                /\ UNCHANGED <<tasks, nextTaskId>>

GetTaskRoute(header, id) ==
    /\ UNCHANGED <<users, tokens, clock, conn>>
    /\ LET a == authenticate(header)
       IN  IF ~a.ok
           THEN Rejected("get", header, id, NoBody, NoQuery, a.resp)
           ELSE /\ last' = Request("get", header, a.user, id, NoBody, NoQuery,
                                   getTask(a.user, id))
                /\ UNCHANGED <<tasks, nextTaskId>>

\* at most maxTasks tasks are ever created
CreateTaskRoute(header, body, maxTasks) ==
    /\ UNCHANGED <<users, tokens, clock, conn>>
    /\ LET a == authenticate(header)
           r == createTask(a.user, body)
       IN  IF ~a.ok
           THEN Rejected("create", header, 0, body, NoQuery, a.resp)
           ELSE /\ r.resp.status = 201 => nextTaskId <= maxTasks
                /\ last' = Request("create", header, a.user, 0, body, NoQuery, r.resp)
                /\ tasks' = r.tasks
                /\ nextTaskId' = IF r.resp.status = 201 THEN nextTaskId + 1
                                 ELSE nextTaskId

UpdateTaskRoute(header, id, body) ==
    /\ UNCHANGED <<users, tokens, clock, conn>>
    /\ LET a == authenticate(header)
           r == updateTask(a.user, id, body)
       IN  IF ~a.ok
           THEN Rejected("update", header, id, body, NoQuery, a.resp)
           ELSE /\ last' = Request("update", header, a.user, id, body, NoQuery, r.resp)
                /\ tasks' = r.tasks
                /\ UNCHANGED nextTaskId

DeleteTaskRoute(header, id) ==
    /\ UNCHANGED <<users, tokens, clock, conn>>
    /\ LET a == authenticate(header)
           r == deleteTask(a.user, id)
       IN  IF ~a.ok
           THEN Rejected("delete", header, id, NoBody, NoQuery, a.resp)
           ELSE /\ last' = Request("delete", header, a.user, id, NoBody, NoQuery, r.resp)
                /\ tasks' = r.tasks
                /\ UNCHANGED nextTaskId

\* a second passes
Tick ==
    /\ clock < MaxClock
    /\ clock' = clock + 1
    /\ UNCHANGED <<users, tasks, nextTaskId, tokens, conn, last>>

-----------------------------------------------------------------------------
(* Inputs of the auth routes *)

EmailA == Str(<<"a@x.com">>)
EmailB == Str(<<"b@x.com">>)
PasswordA == Str(<<"l", "o", "n", "g", "e", "n", "o", "1">>)
PasswordB == Str(<<"o", "t", "h", "e", "r", "p", "w", "2">>)
PasswordShort == Str(<<"s", "h", "o", "r", "t">>)

\* one well-formed body per email, and one body per validation failure
SignupBodies ==
    [name : {Str(<<"A">>)}, email : {EmailA, EmailB}, password : {PasswordA}]
    \cup {[name |-> Undefined, email |-> EmailA, password |-> PasswordA],
          [name |-> Str(<<"A">>), email |-> Str(<<>>), password |-> PasswordA],
          [name |-> Str(<<"A">>), email |-> EmailB, password |-> PasswordShort]}

\* the right and a wrong password for each email, and the validation failures
LoginBodies ==
    [email : {EmailA, EmailB}, password : {PasswordA, PasswordB}]
    \cup {[email |-> Undefined, password |-> PasswordA],
          [email |-> EmailA, password |-> Str(<<>>)]}

-----------------------------------------------------------------------------
(* Specification of the auth routes, from the state after start-up *)

Init ==
    /\ users = {}
    /\ tasks = {}
    /\ nextTaskId = 1
    /\ tokens = {}
    /\ clock = 0
    /\ conn = [c \in Conns |-> Idle]
    /\ last = NoRequest

NextAuth ==
    \/ \E c \in Conns, body \in SignupBodies : SignupBegin(c, body)
    \/ \E c \in Conns : SignupFinish(c)
    \/ \E c \in Conns, body \in LoginBodies : LoginBegin(c, body)
    \/ \E c \in Conns : LoginFinish(c)

SpecAuth == Init /\ [][NextAuth]_vars

-----------------------------------------------------------------------------
(* Inputs of the task routes *)

Word(w) == Str(<<w>>)

Body(title, description, status, priority, due_date) ==
    [title |-> title, description |-> description, status |-> status,
     priority |-> priority, due_date |-> due_date]

Query(status, priority) == [status |-> status, priority |-> priority]

FullBody ==
    Body(Str(<<" ", "t1", " ">>), Word("notes"), Word("completed"),
         Word("high"), Word("2024-12-31"))
TitleOnly == Body(Word("t2"), Undefined, Undefined, Undefined, Undefined)
StatusOnly == Body(Undefined, Undefined, Word("in_progress"), Undefined, Undefined)
EmptyBody == NoBody

\* the headers a client holding the issued tokens sends, and none
ClientHeaders == {NoHeader} \cup {Bearer(t) : t \in tokens}

\* every shape of header the middleware tells apart: no header, an empty
\* one, one part, a wrong scheme, three parts, and "Bearer <token>" with a
\* token that is empty, no JWT, signed with another secret, or issued
AnyHeaders ==
    ClientHeaders
    \cup {Header("", <<>>), Header("Bearer", <<>>),
          Bearer(EmptyToken), Bearer(Garbage)}
    \cup UNION {{Header("Basic", <<t>>), Header("bearer", <<t>>),
                 Header("Bearer", <<t, Garbage>>), Bearer(Forged(t))} :
                t \in {k \in tokens : k.id = 1}}

\* listing and ownership
ListCreates ==
    {TitleOnly,
     Body(Word("t3"), Undefined, Word("completed"), Word("high"), Undefined)}
ListUpdates == {Body(Undefined, Undefined, Word("completed"), Undefined, Undefined)}
ListQueries ==
    {NoQuery,
     Query(Str(<<>>), Undefined), Query(Word("completed"), Undefined),
     Query(Word("done"), Undefined), Query(Undefined, Word("high")),
     Query(Undefined, Word("urgent")), Query(Word("completed"), Word("high"))}

\* merging: bodies that leave out some fields
MergeCreates == {FullBody, TitleOnly}
MergeUpdates ==
    {StatusOnly, EmptyBody,
     Body(Str(<<"t4", " ">>), Word("more"), Undefined, Word("low"), Word("2025-01-01")),
     Body(Undefined, Null, Undefined, Undefined, Null)}

\* validation: values outside the enumerations, blank titles, null
FieldCreates ==
    {FullBody, EmptyBody,
     Body(Str(<<" ">>), Undefined, Undefined, Undefined, Undefined),
     Body(Word("t2"), Undefined, Str(<<>>), Str(<<>>), Undefined),
     Body(Word("t2"), Undefined, Word("done"), Undefined, Undefined),
     Body(Word("t2"), Undefined, Undefined, Word("urgent"), Undefined)}
FieldUpdates ==
    {StatusOnly,
     Body(Undefined, Undefined, Str(<<>>), Undefined, Undefined),
     Body(Undefined, Undefined, Undefined, Str(<<>>), Undefined),
     Body(Undefined, Undefined, Word("done"), Undefined, Undefined),
     Body(Undefined, Undefined, Undefined, Word("urgent"), Undefined),
     Body(Str(<<" ", " ">>), Undefined, Undefined, Undefined, Undefined),
     Body(Undefined, Null, Undefined, Undefined, Undefined),
     Body(Undefined, Undefined, Undefined, Undefined, Null),
     Body(Null, Undefined, Undefined, Undefined, Undefined),
     Body(Undefined, Undefined, Null, Undefined, Undefined),
     Body(Undefined, Undefined, Undefined, Null, Undefined)}

-----------------------------------------------------------------------------
(* Specifications of the task routes, from a state with two accounts: the  *)
(* state the auth routes reach after signup of a@x.com and of b@x.com.     *)

UserRow(id, email, password) ==
    [id |-> id, email |-> email, password |-> Hash(password), name |-> Str(<<"A">>)]

InitTasks ==
    /\ users = {UserRow(1, EmailA, PasswordA), UserRow(2, EmailB, PasswordA)}
    /\ tasks = {}
    /\ nextTaskId = 1
    /\ clock = 0
    /\ tokens = {generateToken([id |-> u.id, email |-> u.email]) : u \in users}
    /\ conn = [c \in Conns |-> Idle]
    /\ last = NoRequest

\* listing and ownership: several tasks of several owners
NextTasks ==
    \/ \E h \in ClientHeaders, q \in ListQueries : ListTasksRoute(h, q)
    \/ \E h \in ClientHeaders, id \in 1 .. MaxTasks : GetTaskRoute(h, id)
    \/ \E h \in ClientHeaders, b \in ListCreates : CreateTaskRoute(h, b, MaxTasks)
    \/ \E h \in ClientHeaders, id \in 1 .. MaxTasks, b \in ListUpdates :
           UpdateTaskRoute(h, id, b)
    \/ \E h \in ClientHeaders, id \in 1 .. MaxTasks : DeleteTaskRoute(h, id)

SpecTasks == InitTasks /\ [][NextTasks]_vars

\* partial update: bodies that leave out some fields
NextMerge ==
    \/ \E h \in ClientHeaders : ListTasksRoute(h, NoQuery)
    \/ \E h \in ClientHeaders, id \in 1 .. MaxFieldTasks : GetTaskRoute(h, id)
    \/ \E h \in ClientHeaders, b \in MergeCreates :
           CreateTaskRoute(h, b, MaxFieldTasks)
    \/ \E h \in ClientHeaders, id \in 1 .. MaxFieldTasks, b \in MergeUpdates :
           UpdateTaskRoute(h, id, b)
    \/ \E h \in ClientHeaders, id \in 1 .. MaxFieldTasks : DeleteTaskRoute(h, id)

SpecMerge == InitTasks /\ [][NextMerge]_vars

\* validation of the fields: bodies with values of every kind
NextFields ==
    \/ \E h \in ClientHeaders : ListTasksRoute(h, NoQuery)
    \/ \E h \in ClientHeaders, id \in 1 .. MaxFieldTasks : GetTaskRoute(h, id)
    \/ \E h \in ClientHeaders, b \in FieldCreates :
           CreateTaskRoute(h, b, MaxFieldTasks)
    \/ \E h \in ClientHeaders, id \in 1 .. MaxFieldTasks, b \in FieldUpdates :
           UpdateTaskRoute(h, id, b)
    \/ \E h \in ClientHeaders, id \in 1 .. MaxFieldTasks : DeleteTaskRoute(h, id)

SpecFields == InitTasks /\ [][NextFields]_vars

\* the middleware: every kind of header, and tokens that expire
NextGate ==
    \/ Tick
    \/ \E h \in AnyHeaders : ListTasksRoute(h, NoQuery)
    \/ \E h \in AnyHeaders, id \in 1 .. MaxFieldTasks : GetTaskRoute(h, id)
    \/ \E h \in AnyHeaders : CreateTaskRoute(h, TitleOnly, MaxFieldTasks)
    \/ \E h \in AnyHeaders, id \in 1 .. MaxFieldTasks :
           UpdateTaskRoute(h, id, EmptyBody)
    \/ \E h \in AnyHeaders, id \in 1 .. MaxFieldTasks : DeleteTaskRoute(h, id)

SpecGate == InitTasks /\ [][NextGate]_vars

\* timestamps: the clock may or may not advance between two requests
NextClock ==
    \/ Tick
    \/ \E h \in ClientHeaders : ListTasksRoute(h, NoQuery)
    \/ \E h \in ClientHeaders, id \in 1 .. MaxFieldTasks : GetTaskRoute(h, id)
    \/ \E h \in ClientHeaders : CreateTaskRoute(h, TitleOnly, MaxFieldTasks)
    \/ \E h \in ClientHeaders, id \in 1 .. MaxFieldTasks,
          b \in {StatusOnly, EmptyBody} : UpdateTaskRoute(h, id, b)
    \/ \E h \in ClientHeaders, id \in 1 .. MaxFieldTasks : DeleteTaskRoute(h, id)

SpecClock == InitTasks /\ [][NextClock]_vars

-----------------------------------------------------------------------------
(* Claims about the auth routes *)

SignupInserted(c) ==
    /\ conn[c].phase = "done"
    /\ conn[c].op = "signup"
    /\ conn[c].via = "insert"

\* C2: when two signups with the same email both pass the email lookup
\* before either inserts, one is answered 201 and the other 409 Conflict.
C2_RaceSurfacesAsConflict ==
    \A c, d \in Conns :
        /\ c # d
        /\ SignupInserted(c)
        /\ SignupInserted(d)
        /\ conn[c].body.email = conn[d].body.email
        /\ conn[c].resp.status = 201
        => /\ conn[d].resp.status = 409
           /\ conn[d].resp.body.error = "Conflict"

\* C3: no two stored user records have the same email.
C3_EmailUnique ==
    \A u1, u2 \in users : u1.email = u2.email => u1 = u2

\* a racing insert was attempted on an email that was already stored
C3_Witness ==
    \E c \in Conns :
        /\ SignupInserted(c)
        /\ conn[c].resp.status # 201
        /\ \E u \in users : u.email = conn[c].body.email

LoginAnswered(c) ==
    /\ conn[c].phase = "done"
    /\ conn[c].op = "login"
    /\ ~Falsy(conn[c].body.email)
    /\ ~Falsy(conn[c].body.password)

\* the email of the login on c is not registered (and so never was)
UnknownEmail(c) == FindUserByEmail(conn[c].body.email) = {}

\* the email of the login on c is registered and its password is not
\* the user's
WrongPassword(c) ==
    \E u \in FindUserByEmail(conn[c].body.email) :
        ~Compare(conn[c].body.password, u.password)

\* C7: a login with an unregistered email and a login with a registered
\* email and a wrong password get the same response (401,
\* InvalidCredentials, same message), and a failed login changes no stored
\* state.
C7_LoginFailuresIdentical ==
    /\ [](\A c \in Conns :
            LoginAnswered(c) /\ (UnknownEmail(c) \/ WrongPassword(c))
            => /\ conn[c].resp.status = 401
               /\ conn[c].resp.body.error = "InvalidCredentials")
    /\ [](\A c, d \in Conns :
            /\ LoginAnswered(c) /\ UnknownEmail(c)
            /\ LoginAnswered(d) /\ WrongPassword(d)
            => conn[c].resp = conn[d].resp)
    /\ [][\A c \in Conns :
            /\ conn'[c] # conn[c]
            /\ conn'[c].op = "login"
            => UNCHANGED <<users, tasks>>]_vars

C7_Witness ==
    \E c, d \in Conns :
        /\ LoginAnswered(c) /\ UnknownEmail(c)
        /\ LoginAnswered(d) /\ WrongPassword(d)
        /\ conn[d].via = "compare"

-----------------------------------------------------------------------------
(* Claims about the task routes.  In the specifications of the task routes  *)
(* every step that is not Tick handles one request and leaves it, with its  *)
(* response, in last; so in such a step, last' is the request handled, the  *)
(* unprimed variables are the state before it and the primed ones the state *)
(* after it.                                                                *)

\* the step handles a request (it is not the clock's)
Handles(op) == clock' = clock /\ last'.op = op

Authenticated(request) == request.user # NoUser

IsNotFound(resp) ==
    /\ resp.status = 404
    /\ resp.body = [error |-> "NotFound", message |-> "Task not found."]

IsValidationError(resp) ==
    /\ resp.status = 400
    /\ DOMAIN resp.body = {"error", "message"}
    /\ resp.body.error = "ValidationError"

\* C1: a get, update or delete with B's identity on the id of a task that
\* A created answers NotFound, carries none of the task's values and leaves
\* the stored records unchanged.
C1_OwnershipIsolation ==
    [][\A t \in tasks :
          /\ Handles("get") \/ Handles("update") \/ Handles("delete")
          /\ Authenticated(last')
          /\ last'.id = t.id
          /\ last'.user.id # t.user_id
          => /\ IsNotFound(last'.resp)
             /\ tasks' = tasks]_vars

\* B's update of A's task was answered, and A's task is still there
C1_Witness ==
    /\ last.op = "update"
    /\ Authenticated(last)
    /\ last.resp.status = 404
    /\ \E t \in tasks :
          /\ t.id = last.id
          /\ t.user_id # last.user.id
          /\ t.status # last.body.status

Supplied(value) == value # Undefined

Matching(request) ==
    {t \in tasks :
        /\ t.user_id = request.user.id
        /\ Supplied(request.query.status) => t.status = request.query.status
        /\ Supplied(request.query.priority) => t.priority = request.query.priority}

Range(seq) == {seq[i] : i \in DOMAIN seq}

\* C9: with every supplied filter in its enumeration, list returns exactly
\* the caller's tasks that match the supplied filters, and their number as
\* count; with a supplied filter outside its enumeration it answers
\* ValidationError.
C9_ListExact ==
    last.op = "list" /\ Authenticated(last)
    => IF /\ Supplied(last.query.status) => last.query.status \in VALID_STATUSES
          /\ Supplied(last.query.priority) => last.query.priority \in VALID_PRIORITIES
       THEN /\ last.resp.status = 200
            /\ Range(last.resp.body.tasks) = Matching(last)
            /\ last.resp.body.count = Cardinality(Matching(last))
            /\ Len(last.resp.body.tasks) = last.resp.body.count
       ELSE IsValidationError(last.resp)

BodyFields == {"title", "description", "status", "priority", "due_date"}

\* C4: after a successful update, every field absent from the body has the
\* value it had before, id, owner and created_at are unchanged, and no
\* other task is touched.
C4_PartialUpdateMerges ==
    [][Handles("update") /\ last'.resp.status = 200
       => \A t \in tasks :
             t.id = last'.id
             => \E n \in tasks' :
                   /\ n.id = t.id
                   /\ n.user_id = t.user_id
                   /\ n.created_at = t.created_at
                   /\ \A f \in BodyFields :
                         ~Supplied(last'.body[f]) => n[f] = t[f]
                   /\ tasks' \ {n} = tasks \ {t}
                   /\ last'.resp.body.task = n]_vars

\* an update that supplied only status, on a task whose other fields are
\* not the defaults
C4_Witness ==
    /\ last.op = "update"
    /\ last.resp.status = 200
    /\ Supplied(last.body.status)
    /\ \A f \in BodyFields \ {"status"} : ~Supplied(last.body[f])
    /\ \E t \in tasks :
          /\ t.id = last.id
          /\ t.status = last.body.status
          /\ t.title = Word("t1")
          /\ t.description = Word("notes")
          /\ t.priority = Word("high")
          /\ t.due_date = Word("2024-12-31")

\* C5: after any creates and updates, with any supplied status and priority
\* (the empty string too), every stored task has its status in {pending,
\* in_progress, completed} and its priority in {low, medium, high}.
C5_EnumerationsClosed ==
    \A t \in tasks :
        t.status \in VALID_STATUSES /\ t.priority \in VALID_PRIORITIES

\* C6: every stored task's title is non-empty after trimming.
C6_TitleNonEmpty ==
    \A t \in tasks : t.title.t = "string" /\ Trim(t.title.v) # <<>>

\* C8: a task route runs its controller only for a header of the form
\* "Bearer <token>" whose token was signed by the server and has not
\* expired; otherwise the answer is 401 with Unauthorized (no header, or not
\* of that form), TokenExpired (signed, expiry elapsed) or InvalidToken (any
\* other token), and no task is read or written.
C8_GateBeforeController ==
    [][clock' = clock
       => LET h == last'.header
              r == last'.resp
              wellFormed == ~h.absent /\ h.scheme = "Bearer" /\ Len(h.rest) = 1
              signed == h.rest[1] \in tokens
              expired == clock >= h.rest[1].exp
              RejectedAs(kind) ==
                  /\ r.status = 401
                  /\ DOMAIN r.body = {"error", "message"}
                  /\ r.body.error = kind
                  /\ ~Authenticated(last')
                  /\ UNCHANGED <<tasks, nextTaskId>>
          IN  IF ~wellFormed THEN RejectedAs("Unauthorized")
              ELSE IF ~signed THEN RejectedAs("InvalidToken")
              ELSE IF expired THEN RejectedAs("TokenExpired")
              ELSE /\ last'.user = [id |-> h.rest[1].id, email |-> h.rest[1].email]
                   /\ r.status # 401]_vars

\* an expired token was turned away from a task that exists
C8_Witness ==
    /\ last.op \in {"get", "update", "delete"}
    /\ last.resp.status = 401
    /\ last.resp.body.error = "TokenExpired"
    /\ \E t \in tasks : t.id = last.id /\ t.user_id = last.header.rest[1].id

\* C10: every successful update makes the task's updated_at strictly
\* greater than it was.
C10_StrictlyIncreases ==
    [][Handles("update") /\ last'.resp.status = 200
       => \A t \in tasks, n \in tasks' :
             t.id = last'.id /\ n.id = t.id
             => n.updated_at > t.updated_at]_vars

\* C10, amended: every successful update sets the task's updated_at to the
\* clock's current second; it never decreases, and it is strictly greater
\* than before exactly when the clock has advanced since the task's
\* previous mutation.
C10_RefreshedFromClock ==
    [][Handles("update") /\ last'.resp.status = 200
       => \A t \in tasks, n \in tasks' :
             t.id = last'.id /\ n.id = t.id
             => /\ n.updated_at = clock
                /\ n.updated_at >= t.updated_at
                /\ n.updated_at > t.updated_at <=> clock > t.updated_at]_vars

\* a task updated in a later second than the one it was created in
C10_Witness ==
    /\ last.op = "update"
    /\ last.resp.status = 200
    /\ \E t \in tasks :
          /\ t.id = last.id
          /\ t.updated_at = clock
          /\ t.updated_at > t.created_at

\* the tasks with the request's id that its caller owns
OwnedBy(request) ==
    {t \in tasks : t.id = request.id /\ t.user_id = request.user.id}

NoTask(id) == \A t \in tasks : t.id # id

DeleteSucceeded(id) ==
    last.op = "delete" /\ last.id = id /\ last.resp.status = 200

\* C11: delete answers 200 exactly when the caller owns a task with the
\* given id, and then removes that task and no other; it answers NotFound
\* exactly when the caller owns no such task, and then leaves the store
\* unchanged.  After a successful delete the id never has a task again, and
\* every get, update or delete of any caller on an id that has no task
\* answers NotFound and leaves the store unchanged.
C11_DeleteExact ==
    /\ [][Handles("delete") /\ Authenticated(last')
          => IF OwnedBy(last') # {}
             THEN /\ last'.resp.status = 200
                  /\ Cardinality(OwnedBy(last')) = 1
                  /\ tasks' = tasks \ OwnedBy(last')
             ELSE /\ IsNotFound(last'.resp)
                  /\ tasks' = tasks]_vars
    /\ \A id \in 1 .. MaxTasks : [](DeleteSucceeded(id) => []NoTask(id))
    /\ [][/\ Handles("get") \/ Handles("update") \/ Handles("delete")
          /\ Authenticated(last')
          /\ NoTask(last'.id)
          => /\ IsNotFound(last'.resp)
             /\ tasks' = tasks]_vars

\* a second delete of an id whose task was deleted, answered NotFound while
\* another task is still stored
C11_Witness ==
    /\ last.op = "delete"
    /\ Authenticated(last)
    /\ IsNotFound(last.resp)
    /\ last.id < nextTaskId
    /\ NoTask(last.id)
    /\ tasks # {}

\* C12: an update of a task its caller owns, with null supplied for one of
\* title, description, status, priority or due_date, either is answered 200
\* and stores null in that field, or is answered ValidationError and leaves
\* the task unchanged; it is never answered 500.
C12_NullOverwritesOrIsRefused ==
    [][/\ Handles("update")
       /\ Authenticated(last')
       /\ OwnedBy(last') # {}
       /\ \E f \in BodyFields : last'.body[f] = Null
       => /\ last'.resp.status # 500
          /\ \/ /\ last'.resp.status = 200
                /\ \E n \in tasks' :
                      /\ n.id = last'.id
                      /\ \A f \in BodyFields :
                            last'.body[f] = Null => n[f] = Null
             \/ /\ IsValidationError(last'.resp)
                /\ tasks' = tasks]_vars

====
